---- MODULE Spec2Model ----
(***************************************************************************)
(* The ADA plugin system (server/plugins/__init__.py): discovery of the    *)
(* plugin files, loading of one PluginBase subclass per file into the      *)
(* name-keyed registry PluginManager.plugins, and the three aggregations   *)
(* over the registry (function catalog, function mapping, widget info),    *)
(* together with the execute_function routing of the plugins.              *)
(*                                                                         *)
(* Python values are modelled as follows.  A dict is a sequence of         *)
(* [key, value] pairs in insertion order (dicts iterate in insertion       *)
(* order, and assigning to an existing key keeps the key's position).  A   *)
(* file name is a sequence of tokens, the last one being its extension.    *)
(* An exception is the name of its class.  Keyword arguments are a         *)
(* function from argument names to values.                                 *)
(***************************************************************************)
EXTENDS Integers, Sequences, FiniteSets, TLC

\* Largest number of entries of the plugin directory.
MaxCandidates == 3
\* Largest number of keyword arguments of one call.
MaxArgs == 1
\* Largest number of calls of load_plugins in one run.
MaxLoads == 2
\* Largest number of dispatches in flight at one time.
MaxInFlight == 2
\* Largest number of items of one batch call (data_list, texts, target_languages).
MaxItems == 2

VARIABLES
    plugin_dir,     \* os.listdir(self.plugin_dir): the file names, in listing order
    plugins,        \* PluginManager.plugins: dict identity -> plugin instance
    log,            \* the lines printed by load_plugins
    pc,             \* "start" (constructed, not loaded), "loading", "done", "raised"
    plugin_names,   \* load_plugins' local: the discovered candidates
    idx,            \* load_plugins' loop position in plugin_names
    next_id,        \* identity of the next object to be constructed
    ret,            \* what the last completed call of the manager returned or raised
    dir_error,      \* the exception os.listdir(self.plugin_dir) raises, or "none"
    loads,          \* the number of load_plugins calls made so far
    held,           \* the function mapping a caller keeps for its later dispatches
    inflight,       \* the execute_function coroutines started and not yet finished
    plugin_ret,     \* the last call of an operation of a shipped plugin
    documents,      \* DocumentAnalysisPlugin.documents of one instance
    generated_images_dir,   \* the files of ImageGenerationPlugin.generated_images_dir
    qr_codes_dir,   \* the files of QRCodeGeneratorPlugin.qr_codes_dir
    pipeline,       \* ImageGenerationPlugin.pipeline: None or the loaded pipeline
    clock           \* the second datetime.now() is in

vars == <<plugin_dir, plugins, log, pc, plugin_names, idx, next_id, ret,
          dir_error, loads, held, inflight, plugin_ret,
          documents, generated_images_dir, qr_codes_dir, pipeline, clock>>

----------------------------------------------------------------------------
(* Python dicts *)

EmptyDict == <<>>

DictKeys(d) == {d[j].key : j \in 1..Len(d)}

DictGet(d, k) == d[CHOOSE j \in 1..Len(d) : d[j].key = k].value

\* A mutation of DictSet: an existing key keeps its old value.
DictSetKeepFirst(d, k, v) ==
    IF k \in DictKeys(d) THEN d ELSE Append(d, [key |-> k, value |-> v])

\* d[k] = v
DictSet(d, k, v) ==
    IF k \in DictKeys(d)
    THEN [j \in 1..Len(d) |-> IF d[j].key = k THEN [key |-> k, value |-> v] ELSE d[j]]
    ELSE Append(d, [key |-> k, value |-> v])

----------------------------------------------------------------------------
(* The plugin files and what they define *)

None == [tag |-> "None"]
Widget(component, css, events) ==
    [tag |-> "dict",
     items |-> [component_name |-> component, css_file |-> css, socket_events |-> events]]
EmptyWidget == [tag |-> "dict", items |-> <<>>]

\* bool(value) of a get_widget_info result
Truthy(w) == w.tag = "dict" /\ DOMAIN w.items # {}

Declaration(n, d) == [name |-> n, description |-> d]

\* The signature of a handler: its named parameters, those without a default,
\* and whether it takes **kwargs.
Signature(req, acc, varkw) == [required |-> req, accepted |-> acc, varkw |-> varkw]

\* The classes of the plugin files: identity (get_name), declared functions
\* (get_functions), the names execute_function routes with their handlers'
\* signatures, get_widget_info's result, and what the constructor does.
ClassTable ==
    [AlphaPlugin |->
        [identity |-> "a",
         functions |-> <<Declaration("foo", "alpha foo")>>,
         handlers |-> [foo |-> Signature({}, {}, TRUE)],
         widget |-> Widget("AlphaWidget", "AlphaWidget.css", <<"alpha_update">>),
         ctor |-> "ok"],
     BetaPlugin |->
        [identity |-> "b",
         functions |-> <<Declaration("bar", "beta bar"), Declaration("foo", "beta foo")>>,
         handlers |-> [bar |-> Signature({}, {}, TRUE), foo |-> Signature({}, {}, TRUE)],
         widget |-> None,
         ctor |-> "ok"],
     SpareBeta |->
        [identity |-> "spare",
         functions |-> <<Declaration("qux", "spare qux")>>,
         handlers |-> [qux |-> Signature({}, {}, TRUE)],
         widget |-> Widget("SpareWidget", "SpareWidget.css", <<>>),
         ctor |-> "ok"],
     AliasPlugin |->
        [identity |-> "a",
         functions |-> <<Declaration("baz", "alias baz")>>,
         handlers |-> [baz |-> Signature({}, {}, TRUE)],
         widget |-> EmptyWidget,
         ctor |-> "ok"],
     BoomPlugin |->
        [identity |-> "boom",
         functions |-> <<Declaration("bang", "boom bang")>>,
         handlers |-> [bang |-> Signature({}, {}, TRUE)],
         widget |-> None,
         ctor |-> "RuntimeError"],
     DocumentAnalysisPlugin |->
        [identity |-> "document_analysis",
         functions |-> <<Declaration("analyze_document", "Analyze and extract content"),
                         Declaration("list_documents", "List all documents"),
                         Declaration("delete_document", "Delete a document")>>,
         handlers |->
            [analyze_document |->
                Signature({"file_data", "filename", "analysis_type"},
                          {"file_data", "filename", "analysis_type", "question"}, FALSE),
             list_documents |-> Signature({}, {}, FALSE),
             delete_document |-> Signature({"document_id"}, {"document_id"}, FALSE)],
         widget |-> Widget("DocumentAnalysisWidget", "DocumentAnalysisWidget.css",
                           <<"document_analysis_update", "document_list_update">>),
         ctor |-> "ok"]]

PluginClasses == DOMAIN ClassTable

\* inspect.isclass(obj)
IsClass(m) == m \in PluginClasses \cup {"PluginBase", "Document"}

\* issubclass(obj, PluginBase)
IsSubclassOfPluginBase(m) == m \in PluginClasses \cup {"PluginBase"}

\* The modules importlib can import under plugins.: whether the import raises,
\* and inspect.getmembers(module), which is sorted by member name.
ModuleTable ==
    [alpha |-> [import |-> "ok", members |-> <<"AlphaPlugin", "PluginBase">>],
     beta |-> [import |-> "ok", members |-> <<"BetaPlugin", "PluginBase", "SpareBeta">>],
     alias |-> [import |-> "ok", members |-> <<"AliasPlugin", "PluginBase">>],
     helper |-> [import |-> "ok", members |-> <<"PluginBase", "helper_fn">>],
     broken |-> [import |-> "ImportError", members |-> <<>>],
     boom |-> [import |-> "ok", members |-> <<"BoomPlugin", "PluginBase", "SpareBeta">>],
     document_analysis |->
        [import |-> "ok",
         members |-> <<"Document", "DocumentAnalysisPlugin", "PluginBase">>]]

\* The file names a plugin directory may hold.
DirEntries ==
    {<<m, ".py">> : m \in DOMAIN ModuleTable}
        \cup {<<"__", "init__", ".py">>, <<"notes", ".txt">>}

\* The exception classes derived from Exception (what "except Exception" catches).
ExceptionSubclasses ==
    {"ImportError", "ModuleNotFoundError", "RuntimeError", "TypeError",
     "AttributeError", "KeyError"}

----------------------------------------------------------------------------
(* PluginManager.discover_plugins *)

\* filename.endswith('.py')
EndsWithPy(filename) == Len(filename) > 0 /\ filename[Len(filename)] = ".py"

\* filename.startswith('__')
StartsWithDunder(filename) == Len(filename) > 0 /\ filename[1] = "__"

\* filename[:-3] of a name that ends in '.py'
StripPy(filename) == SubSeq(filename, 1, Len(filename) - 1)

\* A mutation of discover_plugins: names that start with '__' are kept.
RECURSIVE discover_plugins_keeps_dunder(_)
discover_plugins_keeps_dunder(listing) ==
    IF listing = <<>> THEN <<>>
    ELSE LET filename == Head(listing)
             rest == discover_plugins_keeps_dunder(Tail(listing))
         IN IF EndsWithPy(filename)
            THEN <<StripPy(filename)>> \o rest
            ELSE rest

\* The loop of discover_plugins over the listing os.listdir returned.
RECURSIVE discover_plugins(_)
discover_plugins(listing) ==
    IF listing = <<>> THEN <<>>
    ELSE LET filename == Head(listing)
             rest == discover_plugins(Tail(listing))
         IN IF EndsWithPy(filename) /\ ~StartsWithDunder(filename)
            THEN <<StripPy(filename)>> \o rest
            ELSE rest

\* A mutation of Discovery: an unreadable directory counts as an empty one.
DiscoverySwallowsError(listing, error) ==
    IF error # "none" THEN [exc |-> "none", names |-> <<>>]
    ELSE [exc |-> "none", names |-> discover_plugins(listing)]

\* self.discover_plugins() as load_plugins calls it, outside any try block:
\* the candidates, or the exception os.listdir raised.
Discovery(listing, error) ==
    IF error # "none" THEN [exc |-> error, names |-> <<>>]
    ELSE [exc |-> "none", names |-> discover_plugins(listing)]

----------------------------------------------------------------------------
(* PluginManager.load_plugins *)

\* importlib.import_module(f'plugins.{plugin_name}'): the module, or the
\* exception the import raises.
ImportModule(plugin_name) ==
    IF Len(plugin_name) = 1 /\ plugin_name[1] \in DOMAIN ModuleTable
    THEN ModuleTable[plugin_name[1]]
    ELSE IF plugin_name = <<"__", "init__">>
    THEN [import |-> "ok", members |-> <<"PluginBase", "PluginManager">>]
    ELSE [import |-> "ModuleNotFoundError", members |-> <<>>]

\* The condition of the member loop: a class, a subclass of PluginBase, and
\* not PluginBase itself.
IsPluginClass(m) == IsClass(m) /\ IsSubclassOfPluginBase(m) /\ m # "PluginBase"

\* The member the loop over inspect.getmembers(module) stops at (break), or
\* "none" when the loop runs to its end.
\* A mutation of FirstPluginClass: the member loop has no break, and the last
\* conforming class is the one instantiated.
RECURSIVE LastPluginClass(_)
LastPluginClass(members) ==
    IF members = <<>> THEN "none"
    ELSE IF LastPluginClass(Tail(members)) # "none" THEN LastPluginClass(Tail(members))
    ELSE IF IsPluginClass(Head(members)) THEN Head(members)
    ELSE "none"

RECURSIVE FirstPluginClass(_)
FirstPluginClass(members) ==
    IF members = <<>> THEN "none"
    ELSE IF IsPluginClass(Head(members)) THEN Head(members)
    ELSE FirstPluginClass(Tail(members))

LoadedLine(identity) == [text |-> "Loaded plugin", identity |-> identity]
FailedLine(plugin_name, e) ==
    [text |-> "Failed to load plugin", plugin_name |-> plugin_name, cause |-> e]

\* obj(): the new instance
Instance(cls, plugin_name, id) == [cls |-> cls, module |-> plugin_name, id |-> id]

\* A mutation of TryBody: the registry is assigned anew (self.plugins =
\* {name: instance}) and holds the last instance only.
TryBodyAssignsRegistry(plugin_name, reg, nid) ==
    LET module == ImportModule(plugin_name)
        cls == FirstPluginClass(module.members)
        unchanged(e) == [plugins |-> reg, lines |-> <<>>, next_id |-> nid, exc |-> e]
    IN IF module.import # "ok" THEN unchanged(module.import)
       ELSE IF cls = "none" THEN unchanged("none")
       ELSE IF ClassTable[cls].ctor # "ok" THEN unchanged(ClassTable[cls].ctor)
       ELSE [plugins |-> <<[key |-> ClassTable[cls].identity,
                            value |-> Instance(cls, plugin_name, nid)]>>,
             lines |-> <<LoadedLine(ClassTable[cls].identity)>>,
             next_id |-> nid + 1,
             exc |-> "none"]

\* The body of the try block for one candidate: the registry, the lines
\* printed and the next object identity after it, and the exception it raised
\* ("none" when it ran to its end).
TryBody(plugin_name, reg, nid) ==
    LET module == ImportModule(plugin_name)
        cls == FirstPluginClass(module.members)
        unchanged(e) == [plugins |-> reg, lines |-> <<>>, next_id |-> nid, exc |-> e]
    IN IF module.import # "ok" THEN unchanged(module.import)
       ELSE IF cls = "none" THEN unchanged("none")
       ELSE IF ClassTable[cls].ctor # "ok" THEN unchanged(ClassTable[cls].ctor)
       ELSE [plugins |-> DictSet(reg, ClassTable[cls].identity,
                                 Instance(cls, plugin_name, nid)),
             lines |-> <<LoadedLine(ClassTable[cls].identity)>>,
             next_id |-> nid + 1,
             exc |-> "none"]

\* A mutation of LoadIteration: no except clause, the exception propagates.
LoadIterationNoExcept(plugin_name, reg, nid) ==
    LET r == TryBody(plugin_name, reg, nid)
    IN [plugins |-> r.plugins, lines |-> r.lines, next_id |-> r.next_id,
        escaped |-> r.exc]

\* One iteration of the candidate loop: the try block and its
\* "except Exception" clause.  escaped is the exception that leaves
\* load_plugins, "none" when there is none.
LoadIteration(plugin_name, reg, nid) ==
    LET r == TryBody(plugin_name, reg, nid)
    IN IF r.exc = "none"
       THEN [plugins |-> r.plugins, lines |-> r.lines, next_id |-> r.next_id,
             escaped |-> "none"]
       ELSE IF r.exc \in ExceptionSubclasses
       THEN [plugins |-> r.plugins, lines |-> <<FailedLine(plugin_name, r.exc)>>,
             next_id |-> r.next_id, escaped |-> "none"]
       ELSE [plugins |-> r.plugins, lines |-> <<>>, next_id |-> r.next_id,
             escaped |-> r.exc]

----------------------------------------------------------------------------
(* PluginManager.get_all_functions, get_function_mapping, get_widget_info *)

\* A mutation of get_all_functions: extend at the front.
RECURSIVE get_all_functions_reversed(_)
get_all_functions_reversed(reg) ==
    IF reg = <<>> THEN <<>>
    ELSE get_all_functions_reversed(Tail(reg)) \o ClassTable[Head(reg).value.cls].functions

\* A mutation of get_all_functions: the list is assigned, not extended, and
\* holds the declarations of the last plugin only.
get_all_functions_assign(reg) ==
    IF reg = <<>> THEN <<>>
    ELSE ClassTable[reg[Len(reg)].value.cls].functions

\* functions.extend(plugin.get_functions()) for plugin in self.plugins.values()
RECURSIVE get_all_functions(_)
get_all_functions(reg) ==
    IF reg = <<>> THEN <<>>
    ELSE ClassTable[Head(reg).value.cls].functions \o get_all_functions(Tail(reg))

\* The lambda of one entry: its two defaulted parameters.
Entry(plugin, func_name) == [plugin |-> plugin, func_name |-> func_name]

\* The inner loop of get_function_mapping over one plugin's declarations.
RECURSIVE MapFunctions(_, _, _)
MapFunctions(mapping, plugin, functions) ==
    IF functions = <<>> THEN mapping
    ELSE MapFunctions(DictSet(mapping, Head(functions).name,
                              Entry(plugin, Head(functions).name)),
                      plugin, Tail(functions))

RECURSIVE MapPlugins(_, _)
MapPlugins(mapping, reg) ==
    IF reg = <<>> THEN mapping
    ELSE MapPlugins(MapFunctions(mapping, Head(reg).value,
                                 ClassTable[Head(reg).value.cls].functions),
                    Tail(reg))

\* A mutation of get_function_mapping: the lambdas close over the loop
\* variables, so every entry sees the last plugin and the last name.
get_function_mapping_late_binding(reg) ==
    LET m == MapPlugins(EmptyDict, reg)
    IN [j \in 1..Len(m) |-> [key |-> m[j].key, value |-> m[Len(m)].value]]

get_function_mapping(reg) == MapPlugins(EmptyDict, reg)

\* A mutation of get_widget_info: no "if widget_info", every plugin gets an entry.
RECURSIVE get_widget_info_unfiltered(_)
get_widget_info_unfiltered(reg) ==
    IF reg = <<>> THEN EmptyDict
    ELSE LET before == get_widget_info_unfiltered(SubSeq(reg, 1, Len(reg) - 1))
             plugin == reg[Len(reg)].value
         IN DictSet(before, ClassTable[plugin.cls].identity, ClassTable[plugin.cls].widget)

RECURSIVE get_widget_info(_)
get_widget_info(reg) ==
    IF reg = <<>> THEN EmptyDict
    ELSE LET before == get_widget_info(SubSeq(reg, 1, Len(reg) - 1))
             plugin == reg[Len(reg)].value
             widget_info == ClassTable[plugin.cls].widget
         IN IF Truthy(widget_info)
            THEN DictSet(before, ClassTable[plugin.cls].identity, widget_info)
            ELSE before

----------------------------------------------------------------------------
(* execute_function of a plugin, and a call of one function mapping entry *)

Return(payload) == [kind |-> "return", payload |-> payload]
Raise(e) == [kind |-> "raise", exc |-> e]

Restrict(kwargs, keys) == [k \in DOMAIN kwargs \cap keys |-> kwargs[k]]

\* The body of a handler whose parameters were bound.  The document store of
\* a DocumentAnalysisPlugin is empty here: it is filled by analyze_document
\* alone, which needs file_data, filename and analysis_type, and no call of
\* this model carries them.  Every other handler answers with a payload that
\* tells which instance ran which function on which arguments.
HandlerBody(plugin, function_name, kwargs) ==
    IF plugin.cls = "DocumentAnalysisPlugin" /\ function_name = "list_documents"
    THEN Return([documents |-> <<>>])
    ELSE IF plugin.cls = "DocumentAnalysisPlugin" /\ function_name = "delete_document"
    THEN Return([error |-> <<"Document not found">>])
    ELSE Return([result |-> [plugin |-> plugin, function |-> function_name,
                             arguments |-> kwargs]])

\* Python's binding of **kwargs to a handler's parameters: a missing required
\* parameter or an unexpected keyword raises TypeError at the call.
Binds(sig, kwargs) ==
    /\ sig.required \subseteq DOMAIN kwargs
    /\ sig.varkw \/ DOMAIN kwargs \subseteq sig.accepted

\* plugin.execute_function(function_name, **kwargs): the if/elif chain over
\* the routed names, each branch "return await self._handler(**kwargs)".
execute_function(plugin, function_name, kwargs) ==
    LET handlers == ClassTable[plugin.cls].handlers
    IN IF function_name \in DOMAIN handlers
       THEN IF Binds(handlers[function_name], kwargs)
            THEN HandlerBody(plugin, function_name, kwargs)
            ELSE Raise("TypeError")
       ELSE Return([error |-> <<"Unknown function: ", function_name>>])

Invocation(plugin, function_name, kwargs) ==
    [plugin |-> plugin, function_name |-> function_name, kwargs |-> kwargs]

\* entry(**kwargs) for the entry
\*   lambda plugin=plugin, func_name=func_name, **kwargs:
\*       plugin.execute_function(func_name, **kwargs)
\* The keywords 'plugin' and 'func_name' bind the lambda's own parameters; the
\* rest goes to execute_function(self, function_name, **kwargs), where a
\* keyword 'function_name' collides with the positional argument.  A caller's
\* value for 'plugin' is a string, which has no execute_function.  invoked is
\* the execute_function call made, if any.
CallEntry(entry, kwargs) ==
    LET func_name == IF "func_name" \in DOMAIN kwargs
                     THEN kwargs["func_name"] ELSE entry.func_name
        rest == Restrict(kwargs, DOMAIN kwargs \ {"plugin", "func_name"})
    IN IF "plugin" \in DOMAIN kwargs
       THEN [invoked |-> <<>>, outcome |-> Raise("AttributeError")]
       ELSE IF "function_name" \in DOMAIN rest
       THEN [invoked |-> <<>>, outcome |-> Raise("TypeError")]
       ELSE [invoked |-> <<Invocation(entry.plugin, func_name, rest)>>,
             outcome |-> execute_function(entry.plugin, func_name, rest)]

\* mapping[name](**kwargs) on the dict get_function_mapping returned: the
\* lookup of an absent key raises KeyError.
Dispatch(mapping, name, kwargs) ==
    IF name \in DictKeys(mapping)
    THEN CallEntry(DictGet(mapping, name), kwargs)
    ELSE [invoked |-> <<>>, outcome |-> Raise("KeyError")]

----------------------------------------------------------------------------
(* The inputs *)

ArgKeys == {"document_id", "plugin", "func_name", "function_name"}

ArgValue(k) ==
    CASE k = "document_id" -> "doc1"
      [] k = "plugin" -> "not a plugin"
      [] k = "func_name" -> "bar"
      [] k = "function_name" -> "bar"

KwargsSet ==
    {[k \in K |-> ArgValue(k)] : K \in {S \in SUBSET ArgKeys : Cardinality(S) <= MaxArgs}}

CallNames ==
    {"foo", "bar", "baz", "analyze_document", "list_documents", "delete_document",
     "nonexistent_op"}

\* The keyword arguments that name no parameter of a mapping entry.
PlainKwargs == {kwargs \in KwargsSet : DOMAIN kwargs \subseteq {"document_id"}}

Injective(seq) ==
    \A i, j \in 1..Len(seq) : i # j => seq[i] # seq[j]

Listings ==
    {l \in UNION {[1..n -> DirEntries] : n \in 0..MaxCandidates} : Injective(l)}

----------------------------------------------------------------------------
(* The state machine *)

NoCall == [op |-> "none"]

\* The caller holds no function mapping.
NoMapping == [kept |-> FALSE]

Init ==
    /\ plugin_dir \in Listings
    /\ plugins = EmptyDict
    /\ log = <<>>
    /\ pc = "start"
    /\ plugin_names = <<>>
    /\ idx = 0
    /\ next_id = 1
    /\ ret = NoCall
    /\ dir_error = "none"
    /\ loads = 0
    /\ held = NoMapping
    /\ inflight = <<>>
    /\ plugin_ret = NoCall
    /\ documents = EmptyDict
    /\ generated_images_dir = {}
    /\ qr_codes_dir = {}
    /\ pipeline = None
    /\ clock = 1

\* load_plugins up to its loop: plugin_names = self.discover_plugins()
EnterLoad ==
    LET d == Discovery(plugin_dir, dir_error)
    IN /\ loads' = loads + 1
       /\ IF d.exc = "none"
          THEN /\ pc' = "loading"
               /\ plugin_names' = d.names
               /\ idx' = 1
               /\ ret' = NoCall
          ELSE /\ pc' = "raised"
               /\ ret' = [op |-> "load_plugins", outcome |-> Raise(d.exc)]
               /\ UNCHANGED <<plugin_names, idx>>
       /\ UNCHANGED <<plugin_dir, plugins, log, next_id, dir_error,
                      held, inflight, plugin_ret,
                   documents, generated_images_dir, qr_codes_dir, pipeline, clock>>

\* The first call of load_plugins.
LoadBegin ==
    /\ pc = "start"
    /\ EnterLoad

\* A further call of load_plugins, on the registry the last one left.
LoadAgain ==
    /\ pc = "done"
    /\ loads < MaxLoads
    /\ EnterLoad

\* The plugin directory becomes unreadable (its permissions change).
LosePermission ==
    /\ pc \in {"start", "done"}
    /\ dir_error = "none"
    /\ dir_error' = "PermissionError"
    /\ UNCHANGED <<plugin_dir, plugins, log, pc, plugin_names, idx, next_id, ret, loads, held, inflight, plugin_ret,
                   documents, generated_images_dir, qr_codes_dir, pipeline, clock>>

\* One iteration of "for plugin_name in plugin_names"
LoadCandidate ==
    /\ pc = "loading"
    /\ idx <= Len(plugin_names)
    /\ LET r == LoadIteration(plugin_names[idx], plugins, next_id)
       IN /\ plugins' = r.plugins
          /\ log' = log \o r.lines
          /\ next_id' = r.next_id
          /\ IF r.escaped = "none"
             THEN /\ idx' = idx + 1
                  /\ UNCHANGED <<pc, ret>>
             ELSE /\ pc' = "raised"
                  /\ ret' = [op |-> "load_plugins", outcome |-> Raise(r.escaped)]
                  /\ UNCHANGED idx
    /\ UNCHANGED <<plugin_dir, plugin_names, dir_error, loads, held, inflight, plugin_ret,
                   documents, generated_images_dir, qr_codes_dir, pipeline, clock>>

\* return self.plugins
LoadReturn ==
    /\ pc = "loading"
    /\ idx > Len(plugin_names)
    /\ pc' = "done"
    /\ ret' = [op |-> "load_plugins", outcome |-> Return(plugins)]
    /\ UNCHANGED <<plugin_dir, plugins, log, plugin_names, idx, next_id, dir_error, loads, held, inflight, plugin_ret,
                   documents, generated_images_dir, qr_codes_dir, pipeline, clock>>

\* load_plugins is synchronous: the other methods run before it or after it.
\* The caller is sequential: it makes a call once it is done with the last one.
Idle == pc \in {"start", "done"} /\ ret = NoCall

\* A plugin file is added to the directory between two loads.
AddPluginFile ==
    /\ pc = "done"
    /\ loads < MaxLoads
    /\ Len(plugin_dir) < MaxCandidates
    /\ \E f \in DirEntries :
          /\ \A j \in 1..Len(plugin_dir) : plugin_dir[j] # f
          /\ plugin_dir' = Append(plugin_dir, f)
    /\ UNCHANGED <<plugins, log, pc, plugin_names, idx, next_id, ret, dir_error, loads, held, inflight, plugin_ret,
                   documents, generated_images_dir, qr_codes_dir, pipeline, clock>>

\* The caller is done with the result of its last call.
CallerContinues ==
    /\ pc \in {"start", "done"}
    /\ ret # NoCall
    /\ ret' = NoCall
    /\ UNCHANGED <<plugin_dir, plugins, log, pc, plugin_names, idx, next_id,
                   dir_error, loads, held, inflight, plugin_ret,
                   documents, generated_images_dir, qr_codes_dir, pipeline, clock>>

GetAllFunctions ==
    /\ Idle
    /\ ret' = [op |-> "get_all_functions", value |-> get_all_functions(plugins)]
    /\ UNCHANGED <<plugin_dir, plugins, log, pc, plugin_names, idx, next_id,
                   dir_error, loads, held, inflight, plugin_ret,
                   documents, generated_images_dir, qr_codes_dir, pipeline, clock>>

GetFunctionMapping ==
    /\ Idle
    /\ ret' = [op |-> "get_function_mapping", value |-> get_function_mapping(plugins)]
    /\ UNCHANGED <<plugin_dir, plugins, log, pc, plugin_names, idx, next_id,
                   dir_error, loads, held, inflight, plugin_ret,
                   documents, generated_images_dir, qr_codes_dir, pipeline, clock>>

GetWidgetInfo ==
    /\ Idle
    /\ ret' = [op |-> "get_widget_info", value |-> get_widget_info(plugins)]
    /\ UNCHANGED <<plugin_dir, plugins, log, pc, plugin_names, idx, next_id,
                   dir_error, loads, held, inflight, plugin_ret,
                   documents, generated_images_dir, qr_codes_dir, pipeline, clock>>

\* A call of discover_plugins by itself.
DiscoverPlugins ==
    /\ Idle
    /\ LET d == Discovery(plugin_dir, dir_error)
       IN ret' = [op |-> "discover_plugins",
                  outcome |-> IF d.exc = "none" THEN Return(d.names) ELSE Raise(d.exc)]
    /\ UNCHANGED <<plugin_dir, plugins, log, pc, plugin_names, idx, next_id,
                   dir_error, loads, held, inflight, plugin_ret,
                   documents, generated_images_dir, qr_codes_dir, pipeline, clock>>

\* The caller's dispatch of one operation: get_function_mapping()[name](**kwargs)
Call ==
    /\ Idle
    /\ \E name \in CallNames, kwargs \in KwargsSet :
         LET mapping == get_function_mapping(plugins)
             r == Dispatch(mapping, name, kwargs)
         IN ret' = [op |-> "call", name |-> name, kwargs |-> kwargs,
                    mapping |-> mapping, invoked |-> r.invoked, outcome |-> r.outcome]
    /\ UNCHANGED <<plugin_dir, plugins, log, pc, plugin_names, idx, next_id,
                   dir_error, loads, held, inflight, plugin_ret,
                   documents, generated_images_dir, qr_codes_dir, pipeline, clock>>

Next ==
    \/ LoadBegin
    \/ LoadCandidate
    \/ LoadReturn
    \/ DiscoverPlugins
    \/ GetAllFunctions
    \/ GetFunctionMapping
    \/ GetWidgetInfo
    \/ Call
    \/ CallerContinues

Spec == Init /\ [][Next]_vars

\* The caller builds the function mapping once and keeps it.
KeepMapping ==
    /\ Idle
    /\ held = NoMapping
    /\ held' = [kept |-> TRUE, mapping |-> get_function_mapping(plugins)]
    /\ UNCHANGED <<plugin_dir, plugins, log, pc, plugin_names, idx, next_id, ret,
                   dir_error, loads, inflight, plugin_ret,
                   documents, generated_images_dir, qr_codes_dir, pipeline, clock>>

\* A dispatch through the mapping the caller kept: held[name](**kwargs)
CallHeld ==
    /\ Idle
    /\ held # NoMapping
    /\ \E name \in CallNames, kwargs \in PlainKwargs :
         LET r == Dispatch(held.mapping, name, kwargs)
         IN ret' = [op |-> "call_held", name |-> name, kwargs |-> kwargs,
                    invoked |-> r.invoked, outcome |-> r.outcome]
    /\ UNCHANGED <<plugin_dir, plugins, log, pc, plugin_names, idx, next_id,
                   dir_error, loads, held, inflight, plugin_ret,
                   documents, generated_images_dir, qr_codes_dir, pipeline, clock>>

\* The manager under repeated loads and a directory that may become unreadable.
NextReload ==
    \/ LoadBegin
    \/ LoadCandidate
    \/ LoadReturn
    \/ LoadAgain
    \/ LosePermission
    \/ AddPluginFile
    \/ GetAllFunctions
    \/ GetWidgetInfo
    \/ CallerContinues

SpecReload == Init /\ [][NextReload]_vars

\* The coroutine a dispatch awaits: execute_function is an async def, so the
\* entry's call returns a coroutine and the body runs when it is awaited.
Coroutine(name, kwargs, invocation) ==
    [name |-> name, kwargs |-> kwargs, invocation |-> invocation]

\* The sequence without its i-th element.
RemoveAt(seq, i) == SubSeq(seq, 1, i - 1) \o SubSeq(seq, i + 1, Len(seq))

\* A dispatch starts: get_function_mapping()[name](**kwargs).  A lookup or a
\* binding that fails raises at once; otherwise the coroutine is in flight.
DispatchStart ==
    /\ Idle
    /\ Len(inflight) < MaxInFlight
    /\ \E name \in CallNames, kwargs \in PlainKwargs :
         LET mapping == get_function_mapping(plugins)
             r == Dispatch(mapping, name, kwargs)
         IN IF r.invoked = <<>>
            THEN /\ ret' = [op |-> "call", name |-> name, kwargs |-> kwargs,
                            mapping |-> mapping, invoked |-> r.invoked,
                            outcome |-> r.outcome]
                 /\ UNCHANGED inflight
            ELSE /\ inflight' = Append(inflight, Coroutine(name, kwargs, r.invoked[1]))
                 /\ UNCHANGED ret
    /\ UNCHANGED <<plugin_dir, plugins, log, pc, plugin_names, idx, next_id,
                   dir_error, loads, held, plugin_ret,
                   documents, generated_images_dir, qr_codes_dir, pipeline, clock>>

\* One of the dispatches in flight runs to its end, in any order.
DispatchFinish ==
    /\ Idle
    /\ \E i \in 1..Len(inflight) :
         LET c == inflight[i]
         IN /\ ret' = [op |-> "dispatch_done", name |-> c.name, kwargs |-> c.kwargs,
                       invoked |-> <<c.invocation>>,
                       outcome |-> execute_function(c.invocation.plugin,
                                                    c.invocation.function_name,
                                                    c.invocation.kwargs)]
            /\ inflight' = RemoveAt(inflight, i)
    /\ UNCHANGED <<plugin_dir, plugins, log, pc, plugin_names, idx, next_id,
                   dir_error, loads, held, plugin_ret,
                   documents, generated_images_dir, qr_codes_dir, pipeline, clock>>

\* Two plugin files are enough for dispatches of different plugins in flight.
InitConcurrent == Init /\ Len(plugin_dir) <= 2

\* One load, then reads and dispatches that overlap.
NextConcurrent ==
    \/ LoadBegin
    \/ LoadCandidate
    \/ LoadReturn
    \/ DiscoverPlugins
    \/ GetAllFunctions
    \/ GetFunctionMapping
    \/ GetWidgetInfo
    \/ DispatchStart
    \/ DispatchFinish
    \/ CallerContinues

SpecConcurrent == InitConcurrent /\ [][NextConcurrent]_vars

\* Repeated loads, with a caller that dispatches through a mapping it keeps.
NextHeld ==
    \/ NextReload
    \/ KeepMapping
    \/ CallHeld

SpecHeld == Init /\ [][NextHeld]_vars

----------------------------------------------------------------------------
(* The batch operations of the shipped plugins *)

\* The keys of QRCodeGeneratorPlugin.qr_types.
qr_types == {"url", "text", "email", "phone", "wifi", "vcard"}

\* _is_valid_hex_color on the colors a call may pass.
is_valid_hex_color == ("#000000" :> TRUE) @@ ("#FF0000" :> TRUE) @@ ("red" :> FALSE)

\* The data a call may pass: "oversized" is more than a QR code can hold, and
\* qr.make(fit=True) raises DataOverflowError on it.
QrData == {"https://example.org", "oversized"}

\* The seconds of the clock (datetime.now() formatted to the second).
Seconds == {1, 2}

\* _generate_qr_code(data, qr_type, foreground_color=...) at the clock second now
generate_qr_code(data, qr_type, foreground_color, now) ==
    IF qr_type \notin qr_types
    THEN [error |-> <<"Unsupported QR type: ", qr_type>>]
    ELSE IF ~is_valid_hex_color[foreground_color]
    THEN [error |-> <<"Invalid color format. Use hex codes (e.g., '#FF0000')">>]
    ELSE IF data = "oversized"
    THEN [error |-> <<"QR code generation failed: ", "DataOverflowError">>]
    ELSE [filename |-> <<"qr_", qr_type, "_", now, ".png">>,
          qr_type |-> qr_type,
          data |-> data,
          foreground_color |-> foreground_color,
          generated_at |-> now]

\* The loop of _generate_bulk_qr_codes from item i on (i counts from 1, the
\* 'index' of the code from 0): a result with the key 'error' is not appended.
RECURSIVE BulkResults(_, _, _, _, _)
BulkResults(data_list, qr_type, foreground_color, times, i) ==
    IF i > Len(data_list) THEN <<>>
    ELSE LET result == generate_qr_code(data_list[i], qr_type, foreground_color, times[i])
             rest == BulkResults(data_list, qr_type, foreground_color, times, i + 1)
         IN IF "error" \notin DOMAIN result
            THEN <<[index |-> i - 1] @@ result>> \o rest
            ELSE rest

generate_bulk_qr_codes_counts_requested(data_list, qr_type, foreground_color, times) ==
    IF qr_type \notin qr_types
    THEN [error |-> <<"Unsupported QR type: ", qr_type>>]
    ELSE LET results == BulkResults(data_list, qr_type, foreground_color, times, 1)
         IN [bulk_results |-> results,
             total_generated |-> Len(data_list),
             total_requested |-> Len(data_list),
             qr_type |-> qr_type]

generate_bulk_qr_codes(data_list, qr_type, foreground_color, times) ==
    IF qr_type \notin qr_types
    THEN [error |-> <<"Unsupported QR type: ", qr_type>>]
    ELSE LET results == BulkResults(data_list, qr_type, foreground_color, times, 1)
         IN [bulk_results |-> results,
             total_generated |-> Len(results),
             total_requested |-> Len(data_list),
             qr_type |-> qr_type]

\* Some of the keys of TranslationPlugin.supported_languages.
supported_languages == {"en", "es", "fr"}

\* The texts a call may pass: on "garbled" the translator's call raises.
Texts == {"hello", "garbled"}

\* source_language=None, the default: no source language is given.
NoSourceLanguage == "None"

\* "if source_language": None and the empty string count as not given.
SourceGiven(source_language) == source_language \notin {NoSourceLanguage, ""}

\* One pass of the inner loop of _translate_batch: translator.translate in
\* its own try block.
TranslationRecord(text, target_lang, source_language) ==
    IF text = "garbled"
    THEN [target_language |-> target_lang, error |-> "translate raised"]
    ELSE [target_language |-> target_lang,
          translated_text |-> <<text, " in ", target_lang>>,
          source_language |-> IF SourceGiven(source_language)
                              THEN source_language ELSE "en"]

BatchValidationTargetsOnly(translator, target_languages, source_language) ==
    LET unsupported == {l \in 1..Len(target_languages) :
                           target_languages[l] \notin supported_languages}
    IN IF ~translator
       THEN [error |-> <<"Translation service not available">>]
       ELSE IF unsupported # {}
       THEN [error |-> <<"Unsupported target language: ",
                        target_languages[CHOOSE l \in unsupported :
                                            \A m \in unsupported : l <= m]>>]
       ELSE [valid |-> TRUE]

\* The checks of _translate_batch ahead of its loops: the first that fails
\* returns its error.
BatchValidation(translator, target_languages, source_language) ==
    LET unsupported == {l \in 1..Len(target_languages) :
                           target_languages[l] \notin supported_languages}
    IN IF ~translator
       THEN [error |-> <<"Translation service not available">>]
       ELSE IF unsupported # {}
       THEN [error |-> <<"Unsupported target language: ",
                        target_languages[CHOOSE l \in unsupported :
                                            \A m \in unsupported : l <= m]>>]
       ELSE IF SourceGiven(source_language) /\ source_language \notin supported_languages
       THEN [error |-> <<"Unsupported source language: ", source_language>>]
       ELSE [valid |-> TRUE]

\* The calls of translator.translate one _translate_batch makes, in order:
\* <<text, dest>> for each text and, within it, each target language; a call
\* that raises is followed by the next.
translate_batch_calls(translator, texts, target_languages, source_language) ==
    IF "error" \in DOMAIN BatchValidation(translator, target_languages, source_language)
    THEN <<>>
    ELSE [c \in 1..(Len(texts) * Len(target_languages)) |->
            <<texts[((c - 1) \div Len(target_languages)) + 1],
              target_languages[((c - 1) % Len(target_languages)) + 1]>>]

translate_batch(translator, texts, target_languages, source_language) ==
    LET validation == BatchValidation(translator, target_languages, source_language)
    IN IF "error" \in DOMAIN validation
       THEN validation
       ELSE [batch_results |->
                [t \in 1..Len(texts) |->
                    [original_text |-> texts[t],
                     translations |->
                        [l \in 1..Len(target_languages) |->
                            TranslationRecord(texts[t], target_languages[l],
                                              source_language)]]],
             total_texts |-> Len(texts),
             total_languages |-> Len(target_languages)]

\* The clock does not go back during one call.
NonDecreasing(times) == \A i, j \in 1..Len(times) : i <= j => times[i] <= times[j]

SeqsUpTo(S, n) == UNION {[1..m -> S] : m \in 0..n}

\* qr_image.save(filepath, "PNG") of the generations of one call: the files
\* named by the results without the key 'error'. A file of the same name is
\* written over.
SavedFiles(results) == {results[i].filename : i \in 1..Len(results)}

\* self.qr_codes_dir.glob("qr_*.png")
GlobQr(dir) == {f \in dir : f[1] = "qr_" /\ f[Len(f)] = ".png"}

\* _list_generated_qr_codes: the file names (sizes and creation times left out).
list_generated_qr_codes(dir) ==
    [qr_codes |-> GlobQr(dir), total_count |-> Cardinality(GlobQr(dir))]

\* A second passes.
Tick ==
    /\ plugin_ret = [op |-> "none"]
    /\ clock + 1 \in Seconds
    /\ clock' = clock + 1
    /\ UNCHANGED <<plugin_dir, plugins, log, pc, plugin_names, idx, next_id, ret,
                   dir_error, loads, held, inflight, plugin_ret,
                   documents, generated_images_dir, qr_codes_dir, pipeline>>

\* A call of generate_qr_code, within the current second.
GenerateQrCode ==
    /\ plugin_ret = [op |-> "none"]
    /\ \E data \in QrData, qr_type \in {"url", "text", "barcode"},
          foreground_color \in {"#000000", "red"} :
         LET result == generate_qr_code(data, qr_type, foreground_color, clock)
         IN /\ plugin_ret' = [op |-> "generate_qr_code", data |-> data,
                              qr_type |-> qr_type,
                              foreground_color |-> foreground_color,
                              result |-> result]
            /\ qr_codes_dir' = IF "error" \in DOMAIN result
                               THEN qr_codes_dir
                               ELSE qr_codes_dir \cup SavedFiles(<<result>>)
    /\ UNCHANGED <<plugin_dir, plugins, log, pc, plugin_names, idx, next_id, ret,
                   dir_error, loads, held, inflight,
                   documents, generated_images_dir, pipeline, clock>>

\* A call of generate_bulk_qr_codes: item i is generated in the second
\* times[i], from the current second on.
GenerateBulkQrCodes ==
    /\ plugin_ret = [op |-> "none"]
    /\ \E data_list \in SeqsUpTo(QrData, MaxItems),
          qr_type \in {"url", "barcode"},
          foreground_color \in {"#000000", "red"} :
         \E times \in {t \in [1..Len(data_list) -> Seconds] :
                          NonDecreasing(<<clock>> \o t)} :
            LET result == generate_bulk_qr_codes(data_list, qr_type,
                                                 foreground_color, times)
            IN /\ plugin_ret' = [op |-> "generate_bulk_qr_codes",
                                 data_list |-> data_list,
                                 qr_type |-> qr_type,
                                 foreground_color |-> foreground_color,
                                 times |-> times,
                                 result |-> result]
               /\ qr_codes_dir' = IF "error" \in DOMAIN result
                                  THEN qr_codes_dir
                                  ELSE qr_codes_dir \cup SavedFiles(result.bulk_results)
               /\ clock' = IF "error" \in DOMAIN result \/ data_list = <<>>
                           THEN clock
                           ELSE times[Len(data_list)]
    /\ UNCHANGED <<plugin_dir, plugins, log, pc, plugin_names, idx, next_id, ret,
                   dir_error, loads, held, inflight,
                   documents, generated_images_dir, pipeline>>

\* A call of list_generated_qr_codes.
ListGeneratedQrCodes ==
    /\ plugin_ret = [op |-> "none"]
    /\ plugin_ret' = [op |-> "list_generated_qr_codes",
                      result |-> list_generated_qr_codes(qr_codes_dir)]
    /\ UNCHANGED <<plugin_dir, plugins, log, pc, plugin_names, idx, next_id, ret,
                   dir_error, loads, held, inflight,
                   documents, generated_images_dir, qr_codes_dir, pipeline, clock>>

\* A call of translate_batch.
TranslateBatch ==
    /\ plugin_ret = [op |-> "none"]
    /\ \E translator \in BOOLEAN,
          texts \in SeqsUpTo(Texts, MaxItems),
          target_languages \in SeqsUpTo({"es", "xx"}, MaxItems),
          source_language \in {NoSourceLanguage, "", "en", "xx"} :
         plugin_ret' = [op |-> "translate_batch",
                        translator |-> translator,
                        texts |-> texts,
                        target_languages |-> target_languages,
                        source_language |-> source_language,
                        calls |-> translate_batch_calls(translator, texts,
                                                        target_languages,
                                                        source_language),
                        result |-> translate_batch(translator, texts, target_languages,
                                                   source_language)]
    /\ UNCHANGED <<plugin_dir, plugins, log, pc, plugin_names, idx, next_id, ret,
                   dir_error, loads, held, inflight,
                   documents, generated_images_dir, qr_codes_dir, pipeline, clock>>

\* The caller is done with the result of the batch call.
PluginCallReturns ==
    /\ plugin_ret # [op |-> "none"]
    /\ plugin_ret' = [op |-> "none"]
    /\ UNCHANGED <<plugin_dir, plugins, log, pc, plugin_names, idx, next_id, ret,
                   dir_error, loads, held, inflight,
                   documents, generated_images_dir, qr_codes_dir, pipeline, clock>>

\* One branch of an execute_function chain: the name compared and the handler
\* awaited.
Branch(name, handler) == [name |-> name, handler |-> handler]

\* A shipped plugin: self.name, the names get_functions declares in order, and
\* the if/elif chain of execute_function.
DocumentAnalysis ==
    [name |-> "document_analysis",
     functions |-> <<"analyze_document", "list_documents", "delete_document">>,
     routes |-> <<Branch("analyze_document", "_analyze_document"),
                  Branch("list_documents", "_list_documents"),
                  Branch("delete_document", "_delete_document")>>]

QRCodeGenerator ==
    [name |-> "qr_code_generator",
     functions |-> <<"generate_qr_code", "generate_bulk_qr_codes", "generate_wifi_qr",
                     "generate_vcard_qr", "list_generated_qr_codes">>,
     routes |-> <<Branch("generate_qr_code", "_generate_qr_code"),
                  Branch("generate_bulk_qr_codes", "_generate_bulk_qr_codes"),
                  Branch("generate_wifi_qr", "_generate_wifi_qr"),
                  Branch("generate_vcard_qr", "_generate_vcard_qr"),
                  Branch("list_generated_qr_codes", "_list_generated_qr_codes")>>]

Translation ==
    [name |-> "translation",
     functions |-> <<"translate_text", "detect_language", "get_supported_languages",
                     "translate_batch">>,
     routes |-> <<Branch("translate_text", "_translate_text"),
                  Branch("detect_language", "_detect_language"),
                  Branch("get_supported_languages", "_get_supported_languages"),
                  Branch("translate_batch", "_translate_batch")>>]

EngineeringCalculators ==
    [name |-> "engineering_calculators",
     functions |-> <<"electrical_calculator", "mechanical_calculator",
                     "structural_calculator">>,
     routes |-> <<Branch("electrical_calculator", "_electrical_calculator"),
                  Branch("mechanical_calculator", "_mechanical_calculator"),
                  Branch("structural_calculator", "_structural_calculator")>>]

ImageGeneration ==
    [name |-> "image_generation",
     functions |-> <<"generate_image", "list_generated_images", "delete_generated_image">>,
     routes |-> <<Branch("generate_image", "_generate_image"),
                  Branch("list_generated_images", "_list_generated_images"),
                  Branch("delete_generated_image", "_delete_generated_image")>>]

\* The five shipped plugins, by class.
ShippedPlugins ==
    [DocumentAnalysisPlugin |-> DocumentAnalysis,
     QRCodeGeneratorPlugin |-> QRCodeGenerator,
     TranslationPlugin |-> Translation,
     EngineeringCalculatorsPlugin |-> EngineeringCalculators,
     ImageGenerationPlugin |-> ImageGeneration]

\* A mutation of Chain: the last elif branch is missing.
RECURSIVE ChainWithoutLast(_, _)
ChainWithoutLast(routes, function_name) ==
    IF Len(routes) <= 1 THEN "none"
    ELSE IF function_name = Head(routes).name THEN Head(routes).handler
    ELSE ChainWithoutLast(Tail(routes), function_name)

\* The if/elif chain: the handler of the first branch whose name equals
\* function_name, "none" for the else branch.
RECURSIVE Chain(_, _)
Chain(routes, function_name) ==
    IF routes = <<>> THEN "none"
    ELSE IF function_name = Head(routes).name THEN Head(routes).handler
    ELSE Chain(Tail(routes), function_name)

\* execute_function of a shipped plugin up to the call of the handler: the
\* handler it awaits, or the payload of the else branch.
Routing(cls, function_name) ==
    LET handler == Chain(ShippedPlugins[cls].routes, function_name)
    IN IF handler = "none"
       THEN [error |-> <<"Unknown function: ", function_name>>]
       ELSE [awaits |-> handler]

\* The names a caller may pass to execute_function.
FunctionNames ==
    UNION {{ShippedPlugins[cls].functions[k] :
                k \in 1..Len(ShippedPlugins[cls].functions)} : cls \in DOMAIN ShippedPlugins}
        \cup {"nonexistent_op", "_analyze_document", "Generate_Image"}

\* A call of execute_function of one of the shipped plugins, up to the handler.
RouteFunction ==
    /\ plugin_ret = [op |-> "none"]
    /\ \E cls \in DOMAIN ShippedPlugins, function_name \in FunctionNames :
         plugin_ret' = [op |-> "execute_function", cls |-> cls,
                        function_name |-> function_name,
                        result |-> Routing(cls, function_name)]
    /\ UNCHANGED <<plugin_dir, plugins, log, pc, plugin_names, idx, next_id, ret,
                   dir_error, loads, held, inflight,
                   documents, generated_images_dir, qr_codes_dir, pipeline, clock>>

\* The batch operations of the plugins, called on plugin instances directly.
InitPlugins == Init /\ plugin_dir = <<>>

NextPlugins ==
    \/ GenerateBulkQrCodes
    \/ TranslateBatch
    \/ RouteFunction
    \/ PluginCallReturns

SpecPlugins == InitPlugins /\ [][NextPlugins]_vars

\* The calls of one QRCodeGeneratorPlugin and the passing of time.
NextQr ==
    \/ GenerateQrCode
    \/ GenerateBulkQrCodes
    \/ ListGeneratedQrCodes
    \/ Tick
    \/ PluginCallReturns

SpecQr == InitPlugins /\ [][NextQr]_vars

----------------------------------------------------------------------------
(* DocumentAnalysisPlugin: the document store *)

\* The keys of self.supported_formats.
supported_formats ==
    {".pdf", ".docx", ".txt", ".md", ".rtf", ".csv", ".xlsx", ".pptx", ".png", ".jpg",
     ".jpeg"}

\* The file contents a call may carry: a text, a PDF document, and no bytes.
FileBytes == {"plain text", "%PDF document", ""}

\* file_data: the base64 text of some bytes, or a text that is not base64.
FileData == {<<"base64", b>> : b \in FileBytes} \cup {<<"not base64">>}

\* File names as <<stem, suffix>>.
FileNames ==
    {<<"report", ".txt">>, <<"notes", ".TXT">>, <<"paper", ".pdf">>, <<"tool", ".exe">>}

\* Path(filename).suffix.lower()
SuffixLower(filename) ==
    LET suffix == filename[Len(filename)]
    IN IF suffix = ".TXT" THEN ".txt" ELSE suffix

\* _parse_document: the parser of the extension run on the bytes; a parser
\* that fails gives "".  A PDF read as text does not decode as UTF-8 and is
\* read as latin-1; a text read as PDF makes PyPDF2 raise.
parse_document(file_bytes, file_ext) ==
    IF file_bytes = "" THEN <<>>
    ELSE IF file_ext = ".txt"
    THEN IF file_bytes = "plain text" THEN <<"plain text">>
         ELSE <<"latin-1 of ", file_bytes>>
    ELSE IF file_ext = ".pdf" /\ file_bytes = "%PDF document"
    THEN <<"pages of ", file_bytes>>
    ELSE <<>>

\* A mutation of Md5Hex: every document gets the same id.
Md5HexConstant(file_bytes) == <<"md5 of ", "">>

\* hashlib.md5(file_bytes).hexdigest(), which tells the bytes of this model
\* apart.
Md5Hex(file_bytes) == <<"md5 of ", file_bytes>>

\* len(file_bytes)
ByteLength == ("plain text" :> 10) @@ ("%PDF document" :> 13) @@ ("" :> 0)

\* A mutation of DictDel: the entry stays.
DictDelNothing(d, key) == d

\* del d[key]
DictDel(d, key) == SelectSeq(d, LAMBDA e : e.key # key)

\* _analyze_document(file_data, filename, analysis_type): the store and the
\* payload after the call.  summary is what the summarizer branch puts under
\* 'summary'.  The upload_time of an entry (the event loop's clock) is left
\* out of the entry.
analyze_document(docs, file_data, filename, analysis_type, summary) ==
    LET file_bytes == file_data[2]
        file_ext == SuffixLower(filename)
        content == parse_document(file_bytes, file_ext)
        doc_id == Md5Hex(file_bytes)
        failed(payload) == [documents |-> docs, result |-> payload]
        base == [document_id |-> doc_id, filename |-> filename,
                 content_length |-> Len(content), analysis_type |-> analysis_type]
    IN IF file_data[1] # "base64"
       THEN failed([error |-> <<"Document analysis failed: ", "binascii.Error">>])
       ELSE IF file_ext \notin supported_formats
       THEN failed([error |-> <<"Unsupported file format: ", file_ext>>])
       ELSE IF content = <<>>
       THEN failed([error |-> <<"Failed to extract content from document">>])
       ELSE [documents |->
                DictSet(docs, doc_id,
                        [filename |-> filename, content |-> content,
                         file_size |-> ByteLength[file_bytes]]),
             result |->
                IF analysis_type = "extract"
                THEN [extracted_content |-> content] @@ base
                ELSE IF analysis_type = "summarize"
                THEN [summary |-> summary] @@ base
                ELSE base]

\* _list_documents: one record per entry, in the store's order.
list_documents(docs) ==
    [documents |->
        [j \in 1..Len(docs) |->
            [id |-> docs[j].key, filename |-> docs[j].value.filename,
             file_size |-> docs[j].value.file_size]]]

\* _delete_document(document_id)
delete_document(docs, document_id) ==
    IF document_id \in DictKeys(docs)
    THEN [documents |-> DictDel(docs, document_id),
          result |-> [success |-> TRUE, message |-> "Document deleted"]]
    ELSE [documents |-> docs, result |-> [error |-> <<"Document not found">>]]

\* What _summarize_text or the branch without a summarizer gives.
Summaries ==
    {"Summarization not available (AI models not loaded)", "Summarization failed",
     "summary text"}

AnalyzeDocument ==
    /\ plugin_ret = [op |-> "none"]
    /\ \E file_data \in FileData, filename \in FileNames,
          analysis_type \in {"extract", "summarize", "qa"}, summary \in Summaries :
         LET r == analyze_document(documents, file_data, filename, analysis_type, summary)
         IN /\ analysis_type # "summarize" => summary = "summary text"
            /\ documents' = r.documents
            /\ plugin_ret' = [op |-> "analyze_document", file_data |-> file_data,
                              filename |-> filename, analysis_type |-> analysis_type,
                              result |-> r.result]
    /\ UNCHANGED <<plugin_dir, plugins, log, pc, plugin_names, idx, next_id, ret,
                   dir_error, loads, held, inflight, generated_images_dir, qr_codes_dir, pipeline, clock>>

ListDocuments ==
    /\ plugin_ret = [op |-> "none"]
    /\ plugin_ret' = [op |-> "list_documents", result |-> list_documents(documents)]
    /\ UNCHANGED <<plugin_dir, plugins, log, pc, plugin_names, idx, next_id, ret,
                   dir_error, loads, held, inflight,
                   documents, generated_images_dir, qr_codes_dir, pipeline, clock>>

DeleteDocument ==
    /\ plugin_ret = [op |-> "none"]
    /\ \E document_id \in {Md5Hex(b) : b \in FileBytes} \cup {<<"no such id">>} :
         LET r == delete_document(documents, document_id)
         IN /\ documents' = r.documents
            /\ plugin_ret' = [op |-> "delete_document", document_id |-> document_id,
                              result |-> r.result]
    /\ UNCHANGED <<plugin_dir, plugins, log, pc, plugin_names, idx, next_id, ret,
                   dir_error, loads, held, inflight, generated_images_dir, qr_codes_dir, pipeline, clock>>

NextDocuments ==
    \/ AnalyzeDocument
    \/ ListDocuments
    \/ DeleteDocument
    \/ PluginCallReturns

SpecDocuments == InitPlugins /\ [][NextDocuments]_vars

----------------------------------------------------------------------------
(* ImageGenerationPlugin *)

\* self.pipeline after a successful _initialize_model.
Pipeline == [tag |-> "StableDiffusionXLPipeline"]

Prompts == {"a cat", "a dog"}

\* datetime.now().strftime("%Y%m%d_%H%M%S")
Timestamps == {"20240101_120000", "20240101_120001"}

\* filename = f"generated_{timestamp}.png"
GeneratedFile(timestamp) == <<"generated_", timestamp, ".png">>

\* image_id = hashlib.md5(f"{prompt}_{timestamp}".encode()).hexdigest(): a
\* digest, which is never the text of a timestamp.
ImageId(prompt, timestamp) == "md5 of " \o prompt \o "_" \o timestamp

\* What the directory generated_images can hold when the plugin is
\* constructed (mkdir(exist_ok=True) keeps what is there): image files under
\* the names _generate_image saves them, and a file of another kind.
ImageDirEntries == {GeneratedFile(t) : t \in Timestamps} \cup {<<"notes", ".txt">>}

\* _generate_image(prompt). Without a pipeline it returns its first error.
\* With one, asyncio.to_thread(...) is a coroutine object and .images[0] is
\* read from it before the await applies: the try block raises AttributeError
\* at that expression, nothing is saved, and the except branch returns.
generate_image(pipe, prompt) ==
    IF pipe = None
    THEN [error |-> <<"Image generation model not loaded">>]
    ELSE [error |-> <<"Image generation failed: ",
                      "'coroutine' object has no attribute 'images'">>]

\* self.generated_images_dir.glob("generated_*.png")
GlobGenerated(dir) == {f \in dir : Len(f) = 3 /\ f[1] = "generated_" /\ f[3] = ".png"}

\* _list_generated_images: the file names (sizes and creation times left out).
list_generated_images(dir) == [images |-> GlobGenerated(dir)]

\* _delete_generated_image(image_id)
delete_generated_image(dir, image_id) ==
    LET filename == <<"generated_", image_id, ".png">>
    IN IF filename \in dir
       THEN [dir |-> dir \ {filename},
             result |-> [success |-> TRUE, message |-> "Image deleted"]]
       ELSE [dir |-> dir, result |-> [error |-> <<"Image not found">>]]

GenerateImage ==
    /\ plugin_ret = [op |-> "none"]
    /\ \E prompt \in Prompts :
         plugin_ret' = [op |-> "generate_image", prompt |-> prompt,
                        result |-> generate_image(pipeline, prompt)]
    /\ UNCHANGED <<plugin_dir, plugins, log, pc, plugin_names, idx, next_id, ret,
                   dir_error, loads, held, inflight,
                   documents, generated_images_dir, qr_codes_dir, pipeline, clock>>

ListGeneratedImages ==
    /\ plugin_ret = [op |-> "none"]
    /\ plugin_ret' = [op |-> "list_generated_images",
                      result |-> list_generated_images(generated_images_dir)]
    /\ UNCHANGED <<plugin_dir, plugins, log, pc, plugin_names, idx, next_id, ret,
                   dir_error, loads, held, inflight,
                   documents, generated_images_dir, qr_codes_dir, pipeline, clock>>

DeleteGeneratedImage ==
    /\ plugin_ret = [op |-> "none"]
    /\ \E image_id \in {ImageId(p, t) : p \in Prompts, t \in Timestamps} \cup Timestamps :
         LET r == delete_generated_image(generated_images_dir, image_id)
         IN /\ generated_images_dir' = r.dir
            /\ plugin_ret' = [op |-> "delete_generated_image", image_id |-> image_id,
                              result |-> r.result]
    /\ UNCHANGED <<plugin_dir, plugins, log, pc, plugin_names, idx, next_id, ret,
                   dir_error, loads, held, inflight,
                   documents, qr_codes_dir, pipeline, clock>>

\* The plugin constructed: the model loaded or not, the directory as found.
InitImages ==
    /\ plugin_dir = <<>>
    /\ plugins = EmptyDict
    /\ log = <<>>
    /\ pc = "start"
    /\ plugin_names = <<>>
    /\ idx = 0
    /\ next_id = 1
    /\ ret = NoCall
    /\ dir_error = "none"
    /\ loads = 0
    /\ held = NoMapping
    /\ inflight = <<>>
    /\ plugin_ret = NoCall
    /\ documents = EmptyDict
    /\ generated_images_dir \in SUBSET ImageDirEntries
    /\ qr_codes_dir = {}
    /\ pipeline \in {None, Pipeline}
    /\ clock = 1

NextImages ==
    \/ GenerateImage
    \/ ListGeneratedImages
    \/ DeleteGeneratedImage
    \/ PluginCallReturns

SpecImages == InitImages /\ [][NextImages]_vars

----------------------------------------------------------------------------
(* What the claims speak of *)

\* The class each plugin file is expected to contribute, for the files that
\* import, hold a concrete PluginBase subclass and construct it without fault.
ExpectedClass ==
    [alpha |-> "AlphaPlugin", beta |-> "BetaPlugin", alias |-> "AliasPlugin",
     document_analysis |-> "DocumentAnalysisPlugin"]

LoadsSuccessfully(plugin_name) ==
    Len(plugin_name) = 1 /\ plugin_name[1] \in DOMAIN ExpectedClass

IdentityOf(plugin_name) == ClassTable[ExpectedClass[plugin_name[1]]].identity

\* The positions of plugin_names the loop has gone through.
Processed == IF pc \in {"loading", "done"} THEN 1..(idx - 1) ELSE {}

Succeeded == {j \in Processed : LoadsSuccessfully(plugin_names[j])}

\* The last processed candidate that succeeded with the given identity.
LastWith(identity) ==
    CHOOSE j \in Succeeded :
        /\ IdentityOf(plugin_names[j]) = identity
        /\ \A k \in Succeeded : IdentityOf(plugin_names[k]) = identity => k <= j

Values(d) == {d[j].value : j \in 1..Len(d)}

UniqueKeys(d) == \A i, j \in 1..Len(d) : d[i].key = d[j].key => i = j

Declares(plugin, name) ==
    \E j \in 1..Len(ClassTable[plugin.cls].functions) :
        ClassTable[plugin.cls].functions[j].name = name

\* The registered plugin that owns an operation name: the last one, in the
\* registry's order, that declares it.
Owner(reg, name) ==
    reg[CHOOSE j \in 1..Len(reg) :
            /\ Declares(reg[j].value, name)
            /\ \A k \in 1..Len(reg) : Declares(reg[k].value, name) => k <= j].value

DeclaredNames(reg) ==
    {name \in CallNames : \E j \in 1..Len(reg) : Declares(reg[j].value, name)}

\* C1: a candidate's failure (import error, no plugin class, constructor
\* exception) never leaves load_plugins, and the registry holds, for the
\* candidates gone through so far, exactly the identities of those that loaded,
\* each bound to an instance of a candidate that loaded with that identity.
C1_FailureIsolated ==
    /\ pc # "raised"
    /\ pc \in {"loading", "done"} =>
        /\ \A j \in Succeeded : IdentityOf(plugin_names[j]) \in DictKeys(plugins)
        /\ \A e \in Values(plugins) :
             \E j \in Succeeded :
                /\ e.module = plugin_names[j]
                /\ e.cls = ExpectedClass[plugin_names[j][1]]
        /\ Len(plugins) = Cardinality({IdentityOf(plugin_names[j]) : j \in Succeeded})
    /\ ret.op = "load_plugins" => ret.outcome = Return(plugins)

\* Three candidates, the constructor of one raises, the registry holds the
\* other two.
C1_Witness ==
    /\ pc = "done"
    /\ Len(plugin_names) = 3
    /\ \E j \in 1..3 : plugin_names[j] = <<"boom">>
    /\ Len(plugins) = 2
    /\ \E j \in 1..Len(log) : log[j].text = "Failed to load plugin"

FailedLines == {j \in 1..Len(log) : log[j].text = "Failed to load plugin"}

\* C2: after load, the registry holds as many capabilities as there are
\* conforming candidates, the log holds as many failure lines as there are
\* non-conforming candidates, and so one line per candidate.
C2_EveryCandidateLogged ==
    pc = "done" =>
        LET N == Cardinality({j \in 1..Len(plugin_names) :
                                LoadsSuccessfully(plugin_names[j])})
            M == Len(plugin_names) - N
        IN /\ Len(plugins) = N
           /\ Cardinality(FailedLines) = M
           /\ Len(log) = N + M

\* C3: an identity that two candidates produced has exactly one registry
\* entry, and it holds the instance of the later candidate.
C3_LastWriteWins ==
    pc \in {"loading", "done"} =>
        \A j \in Succeeded :
            LET identity == IdentityOf(plugin_names[j])
                last == LastWith(identity)
            IN /\ Cardinality({k \in 1..Len(plugins) : plugins[k].key = identity}) = 1
               /\ DictGet(plugins, identity).module = plugin_names[last]
               /\ j # last =>
                    \A e \in Values(plugins) : e.module # plugin_names[j]

C3_Witness ==
    /\ pc = "done"
    /\ \E i, j \in Succeeded :
          /\ i < j
          /\ IdentityOf(plugin_names[i]) = IdentityOf(plugin_names[j])
          /\ DictGet(plugins, IdentityOf(plugin_names[j])).module = plugin_names[j]

\* C4: the catalog has one entry per operation name, the declaration of the
\* last registered capability that declares the name.
C4_CatalogOneEntryPerName ==
    ret.op = "get_all_functions" =>
        /\ \A i, j \in 1..Len(ret.value) :
              ret.value[i].name = ret.value[j].name => i = j
        /\ \A i \in 1..Len(ret.value) :
              \E k \in 1..Len(ClassTable[Owner(plugins, ret.value[i].name).cls].functions) :
                 ClassTable[Owner(plugins, ret.value[i].name).cls].functions[k]
                    = ret.value[i]

\* The identities in the order of their first "Loaded plugin" line.
RECURSIVE FirstInserted(_, _)
FirstInserted(lines, seen) ==
    IF lines = <<>> THEN <<>>
    ELSE IF Head(lines).text = "Loaded plugin" /\ Head(lines).identity \notin seen
    THEN <<Head(lines).identity>>
            \o FirstInserted(Tail(lines), seen \cup {Head(lines).identity})
    ELSE FirstInserted(Tail(lines), seen)

RECURSIVE DeclarationsOf(_)
DeclarationsOf(identities) ==
    IF identities = <<>> THEN <<>>
    ELSE ClassTable[DictGet(plugins, Head(identities)).cls].functions
            \o DeclarationsOf(Tail(identities))

\* C5: the catalog is the declarations of the registered capabilities, each
\* capability's in its own order, the capabilities in the order in which their
\* identities were first inserted.
C5_CatalogConcatenation ==
    ret.op = "get_all_functions" =>
        ret.value = DeclarationsOf(FirstInserted(log, {}))

\* The identity "a" was inserted, then "b", then "a" again, and the catalog
\* was built.
C5_Witness ==
    /\ ret.op = "get_all_functions"
    /\ Len(log) = 3
    /\ \A j \in 1..3 : log[j].text = "Loaded plugin"
    /\ <<log[1].identity, log[2].identity, log[3].identity>> = <<"a", "b", "a">>
    /\ Len(ret.value) = 3

\* C6: a dispatch of a name that no registered capability declares returns
\* the payload {"error": "unknown operation: <name>"}.
C6_UnknownOperationPayload ==
    (ret.op = "call" /\ ret.name \notin DeclaredNames(plugins)) =>
        ret.outcome = Return([error |-> <<"unknown operation: ", ret.name>>])

\* C7: a dispatch of a registered name calls the owner's execute_function
\* with that name and the caller's arguments, whatever their keys, and
\* returns what that call returns.
C7_ArgumentsForwarded ==
    (ret.op = "call" /\ ret.name \in DeclaredNames(plugins)) =>
        /\ ret.invoked = <<Invocation(Owner(plugins, ret.name), ret.name, ret.kwargs)>>
        /\ ret.outcome = execute_function(Owner(plugins, ret.name), ret.name, ret.kwargs)

LambdaParameters == {"plugin", "func_name", "function_name"}

\* C8: every entry of the function mapping is bound to its own name and to
\* the registered capability that declares the name, and a call of the entry
\* for f runs execute_function(f, ...) on that capability (for arguments that
\* do not name a parameter of the entry itself, which is C7's matter).
C8_EntryBoundToOwnPair ==
    /\ ret.op = "get_function_mapping" =>
        /\ UniqueKeys(ret.value)
        /\ DictKeys(ret.value) = DeclaredNames(plugins)
        /\ \A j \in 1..Len(ret.value) :
             ret.value[j].value = Entry(Owner(plugins, ret.value[j].key), ret.value[j].key)
    /\ (/\ ret.op = "call"
        /\ ret.name \in DeclaredNames(plugins)
        /\ DOMAIN ret.kwargs \cap LambdaParameters = {}) =>
        /\ Len(ret.invoked) = 1
        /\ ret.invoked[1].plugin = Owner(plugins, ret.name)
        /\ ret.invoked[1].function_name = ret.name

\* An entry that is neither for the last capability nor for the last name was
\* called and ran on its own capability.
C8_Witness ==
    /\ ret.op = "call"
    /\ Len(plugins) = 3
    /\ Len(ret.invoked) = 1
    /\ ret.invoked[1].plugin = plugins[1].value
    /\ ret.invoked[1].function_name = ret.name
    /\ ~Declares(plugins[3].value, ret.name)
    /\ ret.mapping[Len(ret.mapping)].key # ret.name

\* C9: execute_function never raises: whatever the name and the arguments, it
\* returns a payload.
C9_ExecuteFunctionNeverRaises ==
    (ret.op = "call" /\ ret.invoked # <<>>) => ret.outcome.kind = "return"

\* C10: the widget mapping has exactly one entry for each registered
\* capability whose get_widget_info yields a descriptor, under that
\* capability's identity, and none for the others.
C10_WidgetsOmitNothing ==
    ret.op = "get_widget_info" =>
        /\ UniqueKeys(ret.value)
        /\ DictKeys(ret.value) \subseteq DictKeys(plugins)
        /\ DictKeys(ret.value) =
             {identity \in DictKeys(plugins) :
                Truthy(ClassTable[DictGet(plugins, identity).cls].widget)}
        /\ \A identity \in DictKeys(ret.value) :
             DictGet(ret.value, identity).items =
                ClassTable[DictGet(plugins, identity).cls].widget.items

\* Three registered capabilities, one of which defines presentation info.
C10_Witness ==
    /\ ret.op = "get_widget_info"
    /\ Len(plugins) = 3
    /\ Len(ret.value) = 1
    /\ \E e \in Values(plugins) : ClassTable[e.cls].widget = None
    /\ \E e \in Values(plugins) : ClassTable[e.cls].widget = EmptyWidget


----------------------------------------------------------------------------
(* Discovery, instantiation and the load cycle *)

\* The candidates a directory listing should give: the entries whose last
\* part is ".py" and whose first part is not "__", without the ".py", in the
\* order of the listing.
CandidatesOf(listing) ==
    LET kept == SelectSeq(listing,
                          LAMBDA f : f[Len(f)] = ".py" /\ f[1] # "__")
    IN [j \in 1..Len(kept) |-> SubSeq(kept[j], 1, Len(kept[j]) - 1)]

\* C11: discover_plugins returns one candidate for every directory entry that
\* ends in '.py' and does not start with '__', and for no other entry;
\* '__init__' is never a candidate, and a file is a candidate whatever its
\* contents.
C11_DiscoveryFilter ==
    /\ pc \in {"loading", "done"} =>
          /\ plugin_names = CandidatesOf(plugin_dir)
          /\ \A j \in 1..Len(plugin_names) : plugin_names[j] # <<"__", "init__">>
    /\ (ret.op = "discover_plugins" /\ ret.outcome.kind = "return") =>
          ret.outcome.payload = CandidatesOf(plugin_dir)

\* A directory with __init__.py, notes.txt and a module whose import fails:
\* the module is the only candidate.
C11_Witness ==
    /\ ret.op = "discover_plugins"
    /\ plugin_dir = << <<"__", "init__", ".py">>, <<"notes", ".txt">>, <<"broken", ".py">> >>
    /\ ret.outcome = Return(<< <<"broken">> >>)

\* The first member of a module that is a class derived from PluginBase and
\* is not PluginBase.
FirstConforming(cls, members) ==
    \E k \in 1..Len(members) :
        /\ members[k] = cls
        /\ cls \in PluginClasses
        /\ \A m \in 1..(k - 1) : members[m] \notin PluginClasses

\* C13: every candidate gone through gave at most one instance, and every
\* registered instance is of the first conforming class of its module.
C13_FirstClassOnly ==
    pc \in {"loading", "done"} =>
        /\ next_id - 1 = Cardinality(Succeeded)
        /\ \A e \in Values(plugins) :
              /\ e.cls # "PluginBase"
              /\ FirstConforming(e.cls, ModuleTable[e.module[1]].members)
        /\ \A j \in 1..Len(log) :
              log[j].text = "Loaded plugin" =>
                 \E k \in Processed :
                    /\ LoadsSuccessfully(plugin_names[k])
                    /\ log[j].identity = IdentityOf(plugin_names[k])

\* beta.py and boom.py both hold a second conforming class, SpareBeta: beta
\* is registered as BetaPlugin, boom's constructor raised, and nothing is
\* registered under SpareBeta's identity.
C13_Witness ==
    /\ pc = "done"
    /\ \E i, j \in 1..Len(plugin_names) :
          plugin_names[i] = <<"beta">> /\ plugin_names[j] = <<"boom">>
    /\ DictKeys(plugins) = {"b"}
    /\ DictGet(plugins, "b").cls = "BetaPlugin"
    /\ next_id = 2

\* The final states of a candidate in one load cycle.
Registered(j) == \E e \in Values(plugins) : e.module = plugin_names[j]

LoadFailed(j) ==
    /\ \E k \in 1..Len(log) :
          log[k].text = "Failed to load plugin" /\ log[k].plugin_name = plugin_names[j]
    /\ ~Registered(j)

\* C14: when the load cycle ends, every candidate is in exactly one of the
\* states Registered and LoadFailed.
C14_RegisteredOrLoadFailed ==
    pc = "done" =>
        \A j \in 1..Len(plugin_names) : Registered(j) # LoadFailed(j)

ReadOperations == {"get_all_functions", "get_function_mapping", "get_widget_info"}

\* C15: no read of the registry happens before load_plugins has completed.
C15_LoadedBeforeExposed ==
    ret.op \in ReadOperations => pc = "done"

\* C12: a call of load_plugins on an unreadable directory raises the
\* exception of the listing to its caller, goes through no candidate, prints
\* nothing and leaves the registry as it was.
C12_DiscoveryFailureAborts ==
    [][(dir_error # "none" /\ loads' # loads) =>
          /\ plugins' = plugins
          /\ log' = log
          /\ next_id' = next_id
          /\ idx' = idx
          /\ pc' = "raised"
          /\ ret' = [op |-> "load_plugins", outcome |-> Raise(dir_error)]]_vars

\* A first load registered two capabilities, the directory became unreadable,
\* and the second load raised: the two are still registered.
C12_Witness ==
    /\ pc = "raised"
    /\ loads = 2
    /\ ret = [op |-> "load_plugins", outcome |-> Raise("PermissionError")]
    /\ Len(plugins) = 2
    /\ Len(log) = 2

----------------------------------------------------------------------------
(* Repeated loads *)

\* A call of load_plugins has run to its end.
LoadCompleted == pc = "done" \/ loads >= 2

\* C17: once a load has completed, no step of the manager replaces or removes
\* a registered instance.
C17_InstancesNeverReplaced ==
    [][LoadCompleted =>
          \A k \in 1..Len(plugins) :
              k <= Len(plugins') /\ plugins'[k] = plugins[k]]_vars

\* The declarations of the k-th registered plugin.
FunctionsAt(k) == ClassTable[plugins[k].value.cls].functions

\* The number of declarations of the plugins registered before the k-th.
RECURSIVE Offset(_)
Offset(k) == IF k = 1 THEN 0 ELSE Offset(k - 1) + Len(FunctionsAt(k - 1))

C19_EntriesFollowRegistry ==
    ret.op = "call_held" =>
        /\ ret.name \in DeclaredNames(plugins) => ret.invoked # <<>>
        /\ ret.invoked # <<>> => ret.invoked[1].plugin = Owner(plugins, ret.name)

----------------------------------------------------------------------------
(* Overlapping reads and dispatches *)

\* A step that is not a step of load_plugins.
NotLoaderStep == pc \in {"start", "done"} /\ pc' = pc

\* C16: no step other than the loader's changes the registry, and a dispatch
\* that finishes, whatever else is in flight, has called execute_function of
\* the owner of its own name with its own arguments and returns that result.
C16_ReadsAndDispatchesIndependent ==
    /\ [][NotLoaderStep => plugins' = plugins]_vars
    /\ [](ret.op = "dispatch_done" =>
            /\ ret.invoked
                 = <<Invocation(Owner(plugins, ret.name), ret.name, ret.kwargs)>>
            /\ ret.outcome
                 = execute_function(Owner(plugins, ret.name), ret.name, ret.kwargs))

\* A dispatch of one plugin finished while a dispatch of another plugin, with
\* another name, is still in flight.
C16_Witness ==
    /\ ret.op = "dispatch_done"
    /\ Len(inflight) = 1
    /\ inflight[1].invocation.plugin # ret.invoked[1].plugin
    /\ inflight[1].name # ret.name
    /\ Len(plugins) = 2

----------------------------------------------------------------------------
(* Failures of the batch operations *)

\* Some of the work the call was given failed: an item of a bulk call could
\* not be generated, or a text could not be translated, or the call as a
\* whole was refused.
SomeWorkFailed ==
    \/ /\ plugin_ret.op = "generate_bulk_qr_codes"
       /\ \/ plugin_ret.qr_type \notin qr_types
          \/ \E i \in 1..Len(plugin_ret.data_list) :
                \/ plugin_ret.data_list[i] = "oversized"
                \/ plugin_ret.foreground_color = "red"
    \/ /\ plugin_ret.op = "translate_batch"
       /\ \/ ~plugin_ret.translator
          \/ \E l \in 1..Len(plugin_ret.target_languages) :
                plugin_ret.target_languages[l] = "xx"
          \/ plugin_ret.source_language = "xx"
          \/ /\ plugin_ret.target_languages # <<>>
             /\ \E t \in 1..Len(plugin_ret.texts) : plugin_ret.texts[t] = "garbled"

\* C20: a call in which some work failed returns a mapping whose only key is
\* 'error'.
C20_FailureIsErrorMapping ==
    SomeWorkFailed => DOMAIN plugin_ret.result = {"error"}


----------------------------------------------------------------------------
(* Name collisions, the shipped plugins, and the order of discovery *)

\* The declarations of a plugin's class, as a set.
DeclarationSet(plugin) ==
    {ClassTable[plugin.cls].functions[k] : k \in 1..Len(ClassTable[plugin.cls].functions)}

\* C21: the function mapping has one entry for each operation name of the
\* catalog and no other, the entry of a name invokes the last registered
\* capability that declares it, and every declaration the catalog presents
\* under a name is a declaration of the capability the name's entry invokes.
C21_CollisionsResolvedAlike ==
    ret.op = "get_function_mapping" =>
        LET catalog == get_all_functions(plugins)
        IN /\ DictKeys(ret.value) = {catalog[i].name : i \in 1..Len(catalog)}
           /\ UniqueKeys(ret.value)
           /\ \A j \in 1..Len(ret.value) :
                ret.value[j].value.plugin = Owner(plugins, ret.value[j].key)
           /\ \A i \in 1..Len(catalog) :
                catalog[i] \in DeclarationSet(DictGet(ret.value, catalog[i].name).plugin)


\* The names a shipped plugin declares.
DeclaredBy(cls) ==
    {ShippedPlugins[cls].functions[k] : k \in 1..Len(ShippedPlugins[cls].functions)}

\* C22: each shipped plugin routes exactly the names it declares, each to the
\* handler of that name; for any other name execute_function returns the
\* payload {"error": "Unknown function: <name>"} and leaves the plugins' state
\* alone; the five identities are pairwise distinct, and so are all the
\* operation names.
C22_DeclaredIsRouted ==
    /\ [](/\ plugin_ret.op = "execute_function" =>
              IF plugin_ret.function_name \in DeclaredBy(plugin_ret.cls)
              THEN plugin_ret.result = [awaits |-> "_" \o plugin_ret.function_name]
              ELSE plugin_ret.result
                      = [error |-> <<"Unknown function: ", plugin_ret.function_name>>]
          /\ \A c, d \in DOMAIN ShippedPlugins :
                c # d =>
                   /\ ShippedPlugins[c].name # ShippedPlugins[d].name
                   /\ DeclaredBy(c) \cap DeclaredBy(d) = {}
          /\ \A c \in DOMAIN ShippedPlugins :
                Cardinality(DeclaredBy(c)) = Len(ShippedPlugins[c].functions))
    /\ [][(/\ plugin_ret'.op = "execute_function"
           /\ plugin_ret'.function_name \notin DeclaredBy(plugin_ret'.cls)) =>
              UNCHANGED <<documents, generated_images_dir, qr_codes_dir>>]_vars

\* The translation plugin was asked for an operation of the image plugin and
\* answered with the error payload.
C22_Witness ==
    /\ plugin_ret.op = "execute_function"
    /\ plugin_ret.cls = "TranslationPlugin"
    /\ plugin_ret.function_name = "generate_image"
    /\ plugin_ret.result = [error |-> <<"Unknown function: ", "generate_image">>]


----------------------------------------------------------------------------
(* The document store *)

\* The entries of the ids other than id are what they were.
OthersKept(id) ==
    \A k \in DictKeys(documents) \ {id} :
        k \in DictKeys(documents') /\ DictGet(documents', k) = DictGet(documents, k)

\* C23: an analyze_document that returns an error stores nothing, one that
\* succeeds adds the id it returns; delete_document of a stored id removes
\* that entry alone, of an unknown id returns "Document not found" and changes
\* nothing; list_documents gives one record per stored id and changes
\* nothing.  So the store holds the ids returned and not deleted since.
C23_StoreHoldsLiveIds ==
    [][/\ plugin_ret'.op = "analyze_document" =>
            IF "error" \in DOMAIN plugin_ret'.result
            THEN documents' = documents
            ELSE /\ DictKeys(documents')
                      = DictKeys(documents) \cup {plugin_ret'.result.document_id}
                 /\ OthersKept(plugin_ret'.result.document_id)
       /\ plugin_ret'.op = "delete_document" =>
            IF plugin_ret'.document_id \in DictKeys(documents)
            THEN /\ DictKeys(documents') = DictKeys(documents) \ {plugin_ret'.document_id}
                 /\ OthersKept(plugin_ret'.document_id)
                 /\ "error" \notin DOMAIN plugin_ret'.result
            ELSE /\ plugin_ret'.result = [error |-> <<"Document not found">>]
                 /\ documents' = documents
       /\ plugin_ret'.op = "list_documents" =>
            /\ documents' = documents
            /\ Len(plugin_ret'.result.documents) = Len(documents)
            /\ {plugin_ret'.result.documents[j].id : j \in 1..Len(documents)}
                  = DictKeys(documents)
       /\ plugin_ret'.op = "none" => documents' = documents]_vars

\* Two documents were stored, one was deleted, and the other is still there.
C23_Witness ==
    /\ plugin_ret.op = "delete_document"
    /\ plugin_ret.result = [success |-> TRUE, message |-> "Document deleted"]
    /\ plugin_ret.document_id = Md5Hex("plain text")
    /\ DictKeys(documents) = {Md5Hex("%PDF document")}

\* The bytes a valid file_data carries.
BytesOf(file_data) == file_data[2]

\* An id that depends on the bytes alone and differs for different bytes.
IdOfBytes(file_bytes) == <<"md5 of ", file_bytes>>

GeneratedBy(call) ==
    IF "error" \in DOMAIN call.result THEN 0
    ELSE IF call.op = "generate_bulk_qr_codes" THEN call.result.total_generated
    ELSE 1

\* C26: every successful generation creates its own file: a generate_qr_code
\* or generate_bulk_qr_codes call that reports k generated codes leaves
\* list_generated_qr_codes with k more files than before, and the results of
\* one bulk call name pairwise distinct files.
C26_OwnFilePerGeneration ==
    [][plugin_ret'.op \in {"generate_qr_code", "generate_bulk_qr_codes"}
       => /\ list_generated_qr_codes(qr_codes_dir').total_count
               = list_generated_qr_codes(qr_codes_dir).total_count
                 + GeneratedBy(plugin_ret')
          /\ plugin_ret'.op = "generate_bulk_qr_codes"
               /\ "error" \notin DOMAIN plugin_ret'.result
             => \A i, j \in 1..Len(plugin_ret'.result.bulk_results) :
                  i # j => plugin_ret'.result.bulk_results[i].filename
                             # plugin_ret'.result.bulk_results[j].filename]_vars


\* The positions (from 1) of the items of a bulk call whose own generation
\* succeeds.
Succeeding(call) ==
    {i \in 1..Len(call.data_list) :
        "error" \notin DOMAIN generate_qr_code(call.data_list[i], call.qr_type,
                                               call.foreground_color, call.times[i])}

\* C27: a generate_bulk_qr_codes call with a supported qr_type counts every
\* item as requested and the succeeding items as generated, and its
\* bulk_results are exactly the results of the succeeding items, in input
\* order, each with its 0-based position in data_list as 'index'; with an
\* unsupported qr_type the call returns an error and writes no file.
C27_BulkProcessesEveryItem ==
    [][plugin_ret'.op = "generate_bulk_qr_codes"
       => LET call == plugin_ret'
              res == call.result
          IN IF call.qr_type \in qr_types
             THEN /\ "error" \notin DOMAIN res
                  /\ res.total_requested = Len(call.data_list)
                  /\ res.total_generated = Cardinality(Succeeding(call))
                  /\ 0 <= res.total_generated
                  /\ res.total_generated <= res.total_requested
                  /\ Len(res.bulk_results) = Cardinality(Succeeding(call))
                  /\ {res.bulk_results[k].index + 1 : k \in 1..Len(res.bulk_results)}
                        = Succeeding(call)
                  /\ \A k, m \in 1..Len(res.bulk_results) :
                        k < m => res.bulk_results[k].index < res.bulk_results[m].index
                  /\ \A k \in 1..Len(res.bulk_results) :
                        LET i == res.bulk_results[k].index + 1
                        IN res.bulk_results[k]
                             = [index |-> i - 1]
                               @@ generate_qr_code(call.data_list[i], call.qr_type,
                                                   call.foreground_color, call.times[i])
             ELSE /\ "error" \in DOMAIN res
                  /\ qr_codes_dir' = qr_codes_dir]_vars

\* A bulk call whose first item failed and whose second item was generated.
C27_Witness ==
    /\ plugin_ret.op = "generate_bulk_qr_codes"
    /\ "error" \notin DOMAIN plugin_ret.result
    /\ plugin_ret.result.total_requested = 2
    /\ plugin_ret.result.total_generated = 1
    /\ plugin_ret.result.bulk_results[1].index = 1


\* The batch call fails validation: no translator, an unsupported target
\* language, or a source language that is given and unsupported.
FailsValidation(call) ==
    \/ ~call.translator
    \/ \E l \in 1..Len(call.target_languages) :
          call.target_languages[l] \notin supported_languages
    \/ /\ call.source_language \notin {NoSourceLanguage, ""}
       /\ call.source_language \notin supported_languages

\* C28: a translate_batch call that fails validation returns an error and
\* makes no translation call; any other returns one batch_results entry per
\* text, in input order, each with one record per target language, in order,
\* makes the translation call of every text/language pair, and records a
\* failing call as an error on the record of that pair alone.
C28_ValidatesBeforeTranslating ==
    plugin_ret.op = "translate_batch"
    => LET call == plugin_ret
           res == call.result
           T == Len(call.texts)
           L == Len(call.target_languages)
       IN IF FailsValidation(call)
          THEN /\ "error" \in DOMAIN res
               /\ call.calls = <<>>
          ELSE /\ "error" \notin DOMAIN res
               /\ Len(res.batch_results) = T
               /\ Len(call.calls) = T * L
               /\ \A t \in 1..T :
                    /\ res.batch_results[t].original_text = call.texts[t]
                    /\ Len(res.batch_results[t].translations) = L
                    /\ \A l \in 1..L :
                         LET record == res.batch_results[t].translations[l]
                         IN /\ record.target_language = call.target_languages[l]
                            /\ call.calls[(t - 1) * L + l]
                                 = <<call.texts[t], call.target_languages[l]>>
                            /\ "error" \in DOMAIN record <=> call.texts[t] = "garbled"
                            /\ "translated_text" \in DOMAIN record
                                 <=> call.texts[t] # "garbled"

\* A batch whose first text fails to translate and whose second text is
\* translated, into two languages each.
C28_Witness ==
    /\ plugin_ret.op = "translate_batch"
    /\ "error" \notin DOMAIN plugin_ret.result
    /\ plugin_ret.texts = <<"garbled", "hello">>
    /\ Len(plugin_ret.target_languages) = 2
    /\ "error" \in DOMAIN plugin_ret.result.batch_results[1].translations[1]
    /\ "translated_text" \in DOMAIN plugin_ret.result.batch_results[2].translations[2]
    /\ Len(plugin_ret.calls) = 4


\* The candidate loop of load_plugins run over names, from the registry reg.
RECURSIVE LoadAll(_, _, _)
LoadAll(names, reg, nid) ==
    IF names = <<>> THEN reg
    ELSE LET r == LoadIteration(Head(names), reg, nid)
         IN LoadAll(Tail(names), r.plugins, r.next_id)

\* The orderings of the candidates of names.
Orderings(names) ==
    {p \in [1..Len(names) -> {names[i] : i \in 1..Len(names)}] : Injective(p)}

\* The type each identity of a registry is bound to.
TypeOfIdentity(reg) == {<<reg[j].key, reg[j].value.cls>> : j \in 1..Len(reg)}

\* The capability type each operation name of a registry's function mapping
\* is routed to.
TypeOfOperation(reg) ==
    LET m == get_function_mapping(reg)
    IN {<<m[j].key, m[j].value.plugin.cls>> : j \in 1..Len(m)}

\* The classes a candidate contributes when loaded alone: one or none.
Contribution(name) ==
    {e.cls : e \in Values(LoadIteration(name, EmptyDict, 1).plugins)}

OperationNames(cls) ==
    {ClassTable[cls].functions[k].name : k \in 1..Len(ClassTable[cls].functions)}

\* No two candidates contribute the same identity or the same operation name.
CollisionFree(names) ==
    \A i, j \in 1..Len(names) :
        i # j => \A a \in Contribution(names[i]), b \in Contribution(names[j]) :
                    /\ ClassTable[a].identity # ClassTable[b].identity
                    /\ OperationNames(a) \cap OperationNames(b) = {}

\* The first load_plugins has returned and every ordering of its candidates
\* gives the registry and the routing it gave.
SameUnderEveryOrdering ==
    \A p \in Orderings(plugin_names) :
        LET reg == LoadAll(p, EmptyDict, 1)
        IN /\ TypeOfIdentity(reg) = TypeOfIdentity(plugins)
           /\ TypeOfOperation(reg) = TypeOfOperation(plugins)

====
